---- MODULE Spec2Model ----
(***************************************************************************)
(* Sudoku engine of adars87/sudokuweb (logic.js): constraint checker,      *)
(* backtracking solver with a candidate cube, and puzzle generator; and    *)
(* the solve flow of its page (main.js): Solve button, confirmation        *)
(* dialog, delayed solve callback; and its generate flow: Generate and     *)
(* Clear buttons, delayed generate callback.                               *)
(*                                                                         *)
(* Boards are JavaScript arrays of row arrays: a board is an array of row  *)
(* references into `heap`, so that aliasing and cloning are visible.       *)
(* The recursion of backtrack() is a stack of frames, one per active call. *)
(* Math.random is a pseudo-random stream whose seed is an input.           *)
(***************************************************************************)
EXTENDS Integers, Sequences, FiniteSets, TLC

\* ---------------------------------------------------------------- sizes
N == 9
BoxSize == 3
Cells == N * N

\* bounds of the inputs that are enumerated
MaxHoles == 3
MaxSeed == 1
\* a generated puzzle is solved again when it has at most this many holes
MaxResolveHoles == 39
\* seeds of the built cubes the sample puzzle is solved with
MaxSampleSeed == 0
\* cell writes after a cloneBoard
MaxWrites == 2
\* states of the random stream shuffleArray is called in
MaxStream == 499
\* seeds buildCandidateCube is called with on its own
MaxCubeSeed == 19
\* solve callbacks pending at once
MaxTimers == 1
\* pending generate callbacks (Generate clicks within the 50 ms delay)
MaxPending == 2

Idx == 0 .. (N - 1)
Digits == 1 .. N
Pos == Idx \X Idx

VARIABLES
    pc,         \* position of the running call
    op,         \* which exported function was called
    heap,       \* row arrays, by reference (1..Len(heap))
    board,      \* the board being solved: array of row references
    board0,     \* value of the board at the call
    cube,       \* candidate cube used by the solve
    stack,      \* frames of backtrack(): [r, c, k]
    ret,        \* value returned by the backtrack() call that just returned
    stats,      \* { solved, backtracks }
    result,     \* boolean returned by solveBoard
    rng,        \* state of the Math.random stream
    clues,      \* argument of generatePuzzle
    solution,   \* generatePuzzle: the solution board (row references)
    puzzle,     \* generatePuzzle: the puzzle board (row references)
    positions,  \* generatePuzzle: shuffled list of positions
    i,          \* generatePuzzle: index of the removal loop
    checked,    \* value of the board handed to the checker
    conflicts,  \* list returned by validateBoard
    complete,   \* value returned by isBoardComplete
    solvedRes,  \* value returned by isBoardSolved
    first,      \* what the first of two equal solves left and returned
    clone,      \* the board cloneBoard returned (row references)
    written,    \* the cell writes made since the cloneBoard
    placements, \* how many times the running solve executed board[r][c] = num
    cells,      \* main.js: value of the 81 input elements
    modalHidden, \* main.js: modalOverlay has the class 'hidden'
    status,     \* main.js: what setStatus last showed
    timers,     \* main.js: pending setTimeout callbacks, oldest first
    force,      \* main.js: argument of the attemptSolve call at work
    userCells,  \* main.js: userCells, a 9 x 9 array of booleans
    currentSolution \* main.js: currentSolution, a board value or null

vars == << pc, op, heap, board, board0, cube, stack, ret, stats, result, rng,
           clues, solution, puzzle, positions, i, checked, conflicts,
           complete, solvedRes, first, clone, written, placements, cells,
           modalHidden, status, timers, force, userCells, currentSolution >>

\* ---------------------------------------------------------------- boards
\* value of the board object b in heap h
Deref(h, b) == [r \in Idx |-> h[b[r]]]

EmptyBoard == [r \in Idx |-> [c \in Idx |-> 0]]

NullBoard == [r \in Idx |-> 0]

\* allocate the rows of the value v; the new board object and the new heap
NewBoard(h, v) ==
    [heap  |-> h \o [k \in 1 .. N |-> v[k - 1]],
     board |-> [r \in Idx |-> Len(h) + r + 1]]

\* board[r][c] = v
WriteCell(h, b, r, c, v) == [h EXCEPT ![b[r]][c] = v]

PlaceCell_transposed(h, b, r, c, num) == WriteCell(h, b, c, r, num)

\* board[r][c] = num, the placement of backtrack()
PlaceCell(h, b, r, c, num) == WriteCell(h, b, r, c, num)

UndoCell_skipped(h, b, r, c) == h

\* board[r][c] = 0, the undo of backtrack()
UndoCell(h, b, r, c) == WriteCell(h, b, r, c, 0)

NextCandidate_stuck(k) == k

NextCandidate_skips(k) == k + 2

\* k++ of the candidate loop
NextCandidate(k) == k + 1

cloneBoard_identity(h, b) == [heap |-> h, board |-> b]

cloneBoard_shallow(h, b) == [heap |-> h, board |-> [r \in Idx |-> b[r]]]

\* board.map(row => [...row]): a new row array for every row
cloneBoard(h, b) ==
    [heap  |-> h \o [k \in 1 .. N |-> [c \in Idx |-> h[b[k - 1]][c]]],
     board |-> [r \in Idx |-> Len(h) + r + 1]]

\* ---------------------------------------------------------------- checker
BoxOrigin_unscaled(n) == n \div BoxSize

\* Math.floor(n / 3) * 3
BoxOrigin(n) == (n \div BoxSize) * BoxSize

isValidPlacement_noColumn(b, row, col, num) ==
    LET boxR == BoxOrigin(row)
        boxC == BoxOrigin(col)
    IN  IF \E c \in Idx : c # col /\ b[row][c] = num THEN FALSE
        ELSE IF \E r \in boxR .. (boxR + BoxSize - 1) :
                  \E c \in boxC .. (boxC + BoxSize - 1) :
                     (r # row \/ c # col) /\ b[r][c] = num THEN FALSE
        ELSE TRUE

isValidPlacement(b, row, col, num) ==
    LET boxR == BoxOrigin(row)
        boxC == BoxOrigin(col)
    IN  IF \E c \in Idx : c # col /\ b[row][c] = num THEN FALSE
        ELSE IF \E r \in Idx : r # row /\ b[r][col] = num THEN FALSE
        ELSE IF \E r \in boxR .. (boxR + BoxSize - 1) :
                  \E c \in boxC .. (boxC + BoxSize - 1) :
                     (r # row \/ c # col) /\ b[r][c] = num THEN FALSE
        ELSE TRUE

ConflictAt_noRange(b, n) ==
    LET r == n \div N
        c == n % N
        val == b[r][c]
    IN  IF val = 0 THEN << >>
        ELSE IF ~ isValidPlacement(b, r, c, val)
             THEN << [row |-> r, col |-> c] >>
        ELSE << >>

\* the conflict pushed (or not) for the cell with row-major index n
ConflictAt(b, n) ==
    LET r == n \div N
        c == n % N
        val == b[r][c]
    IN  IF val = 0 THEN << >>
        ELSE IF val < 1 \/ val > 9 THEN << [row |-> r, col |-> c] >>
        ELSE IF ~ isValidPlacement(b, r, c, val)
             THEN << [row |-> r, col |-> c] >>
        ELSE << >>

\* the inner loop of validateBoard: the cells c, c+1, ... of row r
RECURSIVE validateRow(_, _, _)
validateRow(b, r, c) ==
    IF c >= N THEN << >>
    ELSE ConflictAt(b, r * N + c) \o validateRow(b, r, c + 1)

\* the outer loop of validateBoard: the rows r, r+1, ...
RECURSIVE validateRows(_, _)
validateRows(b, r) ==
    IF r >= N THEN << >>
    ELSE validateRow(b, r, 0) \o validateRows(b, r + 1)

validateBoard(b) == validateRows(b, 0)

isBoardComplete_inverted(b) == \E r \in Idx : \E c \in Idx : b[r][c] = 0

isBoardComplete(b) == ~ \E r \in Idx : \E c \in Idx : b[r][c] = 0

isBoardSolved_noComplete(b) == Len(validateBoard(b)) = 0

isBoardSolved(b) == isBoardComplete(b) /\ Len(validateBoard(b)) = 0

\* ---------------------------------------------------------------- random
\* Math.random(): the next state of the stream
NextRandom(s) == (s * 25173 + 13849) % 65536

\* Math.floor(Math.random() * n) for the stream state s just drawn
RandomIndex(s, n) == (s * n) \div 65536

\* arrays are functions on 0 .. length-1
ArrayLen(arr) == Cardinality(DOMAIN arr)

shuffleStep_overwrite(st, k) ==
    LET s1 == NextRandom(st.rng)
        j  == RandomIndex(s1, k + 1)
    IN  [arr |-> [st.arr EXCEPT ![k] = st.arr[j]], rng |-> s1]

\* the body of the loop of shuffleArray for i = k: draw j in 0..k and
\* exchange arr[k] and arr[j]
shuffleStep(st, k) ==
    LET s1 == NextRandom(st.rng)
        j  == RandomIndex(s1, k + 1)
    IN  [arr |-> [st.arr EXCEPT ![k] = st.arr[j], ![j] = st.arr[k]],
         rng |-> s1]

\* the iterations i = hi, hi - 1, ..., lo of the loop of shuffleArray, in
\* that order, on the array and stream state st; no index outside the
\* array is visited. The range is halved so that long arrays evaluate in a
\* shallow recursion.
RECURSIVE shuffleLoop(_, _, _)
shuffleLoop(st, hi, lo) ==
    IF hi < lo \/ hi \notin DOMAIN st.arr THEN st
    ELSE IF hi = lo THEN shuffleStep(st, hi)
    ELSE LET mid == (hi + lo) \div 2
         IN  shuffleLoop(shuffleLoop(st, hi, mid + 1), mid, lo)

\* for (let i = arr.length - 1; i > 0; i--)
shuffleArray(arr, s) ==
    shuffleLoop([arr |-> arr, rng |-> s], ArrayLen(arr) - 1, 1)

AscendingRow == [k \in Idx |-> k + 1]

AscendingCube == [r \in Idx |-> [c \in Idx |-> AscendingRow]]

DescendingCube == [r \in Idx |-> [c \in Idx |-> [k \in Idx |-> N - k]]]

\* the inner loop of buildCandidateCube: the cells c, c+1, ... of one row
RECURSIVE cubeRowLoop(_, _, _)
cubeRowLoop(row, c, s) ==
    IF c \notin DOMAIN row THEN [row |-> row, rng |-> s]
    ELSE LET sh == shuffleArray(AscendingRow, s)
         IN  cubeRowLoop([row EXCEPT ![c] = sh.arr], c + 1, sh.rng)

\* the outer loop of buildCandidateCube: the rows r, r+1, ...
RECURSIVE cubeLoop(_, _, _)
cubeLoop(cb, r, s) ==
    IF r \notin DOMAIN cb THEN [cube |-> cb, rng |-> s]
    ELSE LET rw == cubeRowLoop(cb[r], 0, s)
         IN  cubeLoop([cb EXCEPT ![r] = rw.row], r + 1, rw.rng)

buildCandidateCube(s) == cubeLoop(AscendingCube, 0, s)

\* ---------------------------------------------------------------- inputs
\* the completion of the sample puzzle of the README (loadSample)
BaseRows ==
    << << 5, 3, 4, 6, 7, 8, 9, 1, 2 >>,
       << 6, 7, 2, 1, 9, 5, 3, 4, 8 >>,
       << 1, 9, 8, 3, 4, 2, 5, 6, 7 >>,
       << 8, 5, 9, 7, 6, 1, 4, 2, 3 >>,
       << 4, 2, 6, 8, 5, 3, 7, 9, 1 >>,
       << 7, 1, 3, 9, 2, 4, 8, 5, 6 >>,
       << 9, 6, 1, 5, 3, 7, 2, 8, 4 >>,
       << 2, 8, 7, 4, 1, 9, 6, 3, 5 >>,
       << 3, 4, 5, 2, 8, 6, 1, 7, 9 >> >>

BaseBoard == [r \in Idx |-> [c \in Idx |-> BaseRows[r + 1][c + 1]]]

\* cells a caller may have left empty
HoleCells ==
    { <<0, 1>>, <<0, 3>>, <<0, 4>>, <<3, 3>>, <<3, 4>>, <<8, 5>> }

HoleSets == { h \in SUBSET HoleCells : Cardinality(h) <= MaxHoles }

\* what a caller may have typed over the base board
Variants == { "none", "unsat", "dup", "high", "negative", "rows" }

Variant(v) ==
    CASE v = "none"     -> BaseBoard
      [] v = "unsat"    -> [BaseBoard EXCEPT ![8][4] = 6]
      [] v = "dup"      -> [BaseBoard EXCEPT ![1][1] = 5]
      [] v = "high"     -> [BaseBoard EXCEPT ![4][4] = 10]
      [] v = "negative" -> [BaseBoard EXCEPT ![7][7] = -1]
      [] v = "rows"     -> [BaseBoard EXCEPT ![2] = BaseBoard[3],
                                             ![3] = BaseBoard[2]]

InputBoard(v, holes) ==
    [r \in Idx |-> [c \in Idx |->
        IF <<r, c>> \in holes THEN 0 ELSE Variant(v)[r][c]]]

InputBoards == { InputBoard(v, h) : v \in Variants, h \in HoleSets }

GivenCubes == { AscendingCube, DescendingCube }

Seeds == 0 .. MaxSeed

\* the clue counts of the difficulty levels (main.js) and the edge values
ClueCounts == { 0, 1, 24, 32, 42, 80, 81, 82 }

\* ---------------------------------------------------------------- page
\* the texts of the digits: what an input element holds is '' or one of them
Texts == << "1", "2", "3", "4", "5", "6", "7", "8", "9" >>

\* val.toString() of a digit
toString(v) == Texts[v]

\* parseInt(val, 10) of the text of a digit
parseInt(t) == CHOOSE d \in Digits : Texts[d] = t

\* the grid buildBoard() creates: every input element empty
EmptyCells == [r \in Idx |-> [c \in Idx |-> ""]]

\* Array.from({ length: 9 }, () => Array(9).fill(false))
NoUserCells == [r \in Idx |-> [c \in Idx |-> FALSE]]

\* e.target.value.replace(/[^1-9]/g, ''): what is kept of one typed key
Filter(t) == IF \E d \in Digits : Texts[d] = t THEN t ELSE ""

\* setStatus(msg, type); count is the number the message shows
Status(m, t, n) == [msg |-> m, type |-> t, count |-> n]

\* clearStatus()
NoStatus == Status("", "", 0)

\* what writeBoard(b) leaves in the input elements
writeBoard(b) ==
    [r \in Idx |-> [c \in Idx |->
        IF b[r][c] = 0 THEN "" ELSE toString(b[r][c])]]

\* ---------------------------------------------------------------- state
\* no call is running and none has run
NoCall ==
    /\ pc = "idle"
    /\ op = "none"
    /\ heap = << >>
    /\ board = NullBoard
    /\ board0 = EmptyBoard
    /\ cube = AscendingCube
    /\ stack = << >>
    /\ ret = FALSE
    /\ stats = [solved |-> FALSE, backtracks |-> 0]
    /\ result = FALSE
    /\ rng = 0
    /\ clues = 0
    /\ solution = NullBoard
    /\ puzzle = NullBoard
    /\ positions = << >>
    /\ i = 0
    /\ checked = EmptyBoard
    /\ conflicts = << >>
    /\ complete = FALSE
    /\ solvedRes = FALSE
    /\ first = [board |-> EmptyBoard, solved |-> FALSE, backtracks |-> 0]
    /\ clone = NullBoard
    /\ written = << >>
    /\ placements = 0

\* the page as loaded: an empty grid, the dialog hidden, nothing pending
Init ==
    /\ NoCall
    /\ cells = EmptyCells
    /\ modalHidden = TRUE
    /\ status = NoStatus
    /\ timers = << >>
    /\ force = FALSE
    /\ userCells = NoUserCells
    /\ currentSolution = NullBoard

\* the value of the board being solved
B == Deref(heap, board)

genVars == << clues, solution, puzzle, positions, i >>
chkVars == << checked, conflicts, complete, solvedRes >>
runVars == << first, clone, written, placements >>
uiVars == << cells, modalHidden, status, timers, force, userCells,
            currentSolution >>

\* ---------------------------------------------------------------- solver
FirstEmpty_shortScan(b) ==
    LET empty == { n \in 0 .. (Cells - 2) : b[n \div N][n % N] = 0 }
    IN  IF empty = { } THEN Cells
        ELSE CHOOSE n \in empty : \A m \in empty : n <= m

\* the first empty cell of b in the row-major scan, as a row-major index
\* (Cells when the scan finds none)
FirstEmpty(b) ==
    LET empty == { n \in 0 .. (Cells - 1) : b[n \div N][n % N] = 0 }
    IN  IF empty = { } THEN Cells
        ELSE CHOOSE n \in empty : \A m \in empty : n <= m

\* solveBoardWithStats(board, cube) with a cube
solveBoardWithStats ==
    /\ pc = "idle"
    /\ \E b \in InputBoards : \E cb \in GivenCubes :
          LET nb == NewBoard(heap, b)
          IN  /\ heap' = nb.heap
              /\ board' = nb.board
              /\ board0' = b
              /\ cube' = cb
    /\ op' = "solveBoardWithStats"
    /\ stats' = [solved |-> FALSE, backtracks |-> 0]
    /\ stack' = << >>
    /\ placements' = 0
    /\ pc' = "call"
    /\ UNCHANGED << ret, result, rng, genVars, chkVars,
                    first, clone, written, uiVars >>

solveBoard_ascending ==
    /\ pc = "idle"
    /\ \E b \in InputBoards : \E seed \in Seeds :
          LET nb == NewBoard(heap, b)
          IN  /\ heap' = nb.heap
              /\ board' = nb.board
              /\ board0' = b
              /\ cube' = AscendingCube
              /\ rng' = seed
    /\ op' = "solveBoard"
    /\ stats' = [solved |-> FALSE, backtracks |-> 0]
    /\ stack' = << >>
    /\ placements' = 0
    /\ pc' = "call"
    /\ UNCHANGED << ret, result, genVars, chkVars, first, clone, written, uiVars >>

\* solveBoard(board): solveBoardWithStats(board) without a cube, so the cube
\* is built; only .solved is returned
solveBoard ==
    /\ pc = "idle"
    /\ \E b \in InputBoards : \E seed \in Seeds :
          LET nb == NewBoard(heap, b)
              built == buildCandidateCube(seed)
          IN  /\ heap' = nb.heap
              /\ board' = nb.board
              /\ board0' = b
              /\ cube' = built.cube
              /\ rng' = built.rng
    /\ op' = "solveBoard"
    /\ stats' = [solved |-> FALSE, backtracks |-> 0]
    /\ stack' = << >>
    /\ placements' = 0
    /\ pc' = "call"
    /\ UNCHANGED << ret, result, genVars, chkVars,
                    first, clone, written, uiVars >>

\* a call of backtrack(): scan for the first empty cell
backtrackEnter ==
    /\ pc = "call"
    /\ LET n == FirstEmpty(B)
       IN  IF n < Cells
           THEN /\ stack' = Append(stack, [r |-> n \div N, c |-> n % N, k |-> 0])
                /\ pc' = "try"
                /\ ret' = ret
           ELSE /\ ret' = TRUE
                /\ pc' = "ret"
                /\ stack' = stack
    /\ UNCHANGED << op, heap, board, board0, cube, stats, result, rng,
                    genVars, chkVars,
                    runVars, uiVars >>

Top == stack[Len(stack)]

SetTopK(k) == [stack EXCEPT ![Len(stack)].k = k]

Pop == SubSeq(stack, 1, Len(stack) - 1)

backtrackTry_unchecked ==
    /\ pc = "try"
    /\ IF Top.k < 9
       THEN LET num == cube[Top.r][Top.c][Top.k]
            IN  /\ heap' = PlaceCell(heap, board, Top.r, Top.c, num)
                /\ placements' = placements + 1
                /\ pc' = "call"
                /\ stack' = stack
       ELSE /\ stack' = Pop
            /\ pc' = "ret"
            /\ UNCHANGED << heap, placements >>
    /\ ret' = (IF Top.k < 9 THEN ret ELSE FALSE)
    /\ UNCHANGED << op, board, board0, cube, stats, result, rng,
                    genVars, chkVars, first, clone, written, uiVars >>

backtrackTry_reversed ==
    /\ pc = "try"
    /\ IF Top.k < 9
       THEN LET num == cube[Top.r][Top.c][8 - Top.k]
            IN  IF isValidPlacement(B, Top.r, Top.c, num)
                THEN /\ heap' = PlaceCell(heap, board, Top.r, Top.c, num)
                     /\ placements' = placements + 1
                     /\ pc' = "call"
                     /\ stack' = stack
                ELSE /\ stack' = SetTopK(NextCandidate(Top.k))
                     /\ pc' = "try"
                     /\ UNCHANGED << heap, placements >>
       ELSE /\ stack' = Pop
            /\ pc' = "ret"
            /\ UNCHANGED << heap, placements >>
    /\ ret' = (IF Top.k < 9 THEN ret ELSE FALSE)
    /\ UNCHANGED << op, board, board0, cube, stats, result, rng,
                    genVars, chkVars, first, clone, written, uiVars >>

\* one iteration of the candidate loop, up to the recursive call
backtrackTry ==
    /\ pc = "try"
    /\ IF Top.k < 9
       THEN LET num == cube[Top.r][Top.c][Top.k]
            IN  IF isValidPlacement(B, Top.r, Top.c, num)
                THEN /\ heap' = PlaceCell(heap, board, Top.r, Top.c, num)
                     /\ placements' = placements + 1
                     /\ pc' = "call"
                     /\ stack' = stack
                ELSE /\ stack' = SetTopK(NextCandidate(Top.k))
                     /\ pc' = "try"
                     /\ UNCHANGED << heap, placements >>
       ELSE /\ stack' = Pop
            /\ pc' = "ret"
            /\ UNCHANGED << heap, placements >>
    /\ ret' = (IF Top.k < 9 THEN ret ELSE FALSE)
    /\ UNCHANGED << op, board, board0, cube, stats, result, rng,
                    genVars, chkVars,
                    first, clone, written, uiVars >>

backtrackResume_reshuffle ==
    /\ pc = "ret"
    /\ stack # << >>
    /\ IF ret
       THEN /\ stack' = Pop
            /\ pc' = "ret"
            /\ UNCHANGED << heap, stats, cube, rng >>
       ELSE LET sh == shuffleArray(cube[Top.r][Top.c], rng)
            IN  /\ heap' = UndoCell(heap, board, Top.r, Top.c)
                /\ stats' = [stats EXCEPT !.backtracks = @ + 1]
                /\ cube' = [cube EXCEPT ![Top.r][Top.c] = sh.arr]
                /\ rng' = sh.rng
                /\ stack' = SetTopK(NextCandidate(Top.k))
                /\ pc' = "try"
    /\ UNCHANGED << op, board, board0, ret, result, genVars, chkVars,
                    runVars, uiVars >>

backtrackResume_uncounted ==
    /\ pc = "ret"
    /\ stack # << >>
    /\ IF ret
       THEN /\ stack' = Pop
            /\ pc' = "ret"
            /\ heap' = heap
       ELSE /\ heap' = UndoCell(heap, board, Top.r, Top.c)
            /\ stack' = SetTopK(NextCandidate(Top.k))
            /\ pc' = "try"
    /\ UNCHANGED << op, board, board0, cube, ret, stats, result, rng,
                    genVars, chkVars, runVars, uiVars >>

\* the recursive call returned into the candidate loop
backtrackResume ==
    /\ pc = "ret"
    /\ stack # << >>
    /\ IF ret
       THEN /\ stack' = Pop
            /\ pc' = "ret"
            /\ heap' = heap
            /\ stats' = stats
       ELSE /\ heap' = UndoCell(heap, board, Top.r, Top.c)
            /\ stats' = [stats EXCEPT !.backtracks = @ + 1]
            /\ stack' = SetTopK(NextCandidate(Top.k))
            /\ pc' = "try"
    /\ UNCHANGED << op, board, board0, cube, ret, result, rng,
                    genVars, chkVars,
                    runVars, uiVars >>

\* the outermost backtrack() returned: stats.solved is set and returned
solveReturn ==
    /\ pc = "ret"
    /\ stack = << >>
    /\ stats' = [stats EXCEPT !.solved = ret]
    /\ result' = (IF op = "solveBoard" THEN ret ELSE result)
    /\ pc' = (IF op = "generatePuzzle" THEN "clone" ELSE "done")
    /\ UNCHANGED << op, heap, board, board0, cube, stack, ret, rng,
                    genVars, chkVars,
                    runVars, uiVars >>

\* ---------------------------------------------------------------- generator
\* positions.push([r, c]) for every cell, in row-major order
AllPositions == [n \in 0 .. (Cells - 1) |-> << n \div N, n % N >>]

toRemove_offByOne(n) == 80 - n

\* const toRemove = 81 - clues
toRemove(n) == 81 - n

\* generatePuzzle(clues): generateFullSolution() up to its call of the solver
generatePuzzle ==
    /\ pc = "idle"
    /\ \E n \in ClueCounts : clues' = n
    /\ \E seed \in Seeds :
          LET nb == NewBoard(heap, EmptyBoard)
              built == buildCandidateCube(seed)
          IN  /\ heap' = nb.heap
              /\ board' = nb.board
              /\ cube' = built.cube
              /\ rng' = built.rng
    /\ board0' = EmptyBoard
    /\ op' = "generatePuzzle"
    /\ stats' = [solved |-> FALSE, backtracks |-> 0]
    /\ stack' = << >>
    /\ placements' = 0
    /\ pc' = "call"
    /\ UNCHANGED << ret, result, solution, puzzle, positions, i, chkVars,
                    first, clone, written, uiVars >>

\* generateFullSolution returned: clone the solution, shuffle the positions
generateClone ==
    /\ pc = "clone"
    /\ LET cl == cloneBoard(heap, board)
           sh == shuffleArray(AllPositions, rng)
       IN  /\ solution' = board
           /\ puzzle' = cl.board
           /\ heap' = cl.heap
           /\ positions' = sh.arr
           /\ rng' = sh.rng
    /\ i' = 0
    /\ pc' = "remove"
    /\ UNCHANGED << op, board, board0, cube, stack, ret, stats, result, clues,
                    chkVars,
                    runVars, uiVars >>

\* the removal loop, and the return when it ends
generateRemove ==
    /\ pc = "remove"
    /\ IF i < toRemove(clues) /\ i < ArrayLen(positions)
       THEN /\ heap' = WriteCell(heap, puzzle, positions[i][1],
                                 positions[i][2], 0)
            /\ i' = i + 1
            /\ pc' = "remove"
       ELSE /\ pc' = "done"
            /\ UNCHANGED << heap, i >>
    /\ UNCHANGED << op, board, board0, cube, stack, ret, stats, result, rng,
                    clues, solution, puzzle, positions, chkVars,
                    runVars, uiVars >>

\* ---------------------------------------------------------------- checks
\* validateBoard, isBoardComplete and isBoardSolved called on a board
checkInput ==
    /\ pc = "idle"
    /\ \E b \in InputBoards :
          LET nb == NewBoard(heap, b)
          IN  /\ heap' = nb.heap
              /\ board' = nb.board
              /\ board0' = b
              /\ checked' = b
              /\ conflicts' = validateBoard(b)
              /\ complete' = isBoardComplete(b)
              /\ solvedRes' = isBoardSolved(b)
    /\ op' = "validateBoard"
    /\ pc' = "checked"
    /\ UNCHANGED << cube, stack, ret, stats, result, rng, genVars,
                    runVars, uiVars >>

\* the boards a finished call handed back
Returned ==
    IF op = "generatePuzzle" THEN { solution, puzzle } ELSE { board }

\* the same calls on a board that a solve or a generation returned
checkOutput ==
    /\ pc = "done"
    /\ \E b \in Returned :
          /\ checked' = Deref(heap, b)
          /\ conflicts' = validateBoard(Deref(heap, b))
          /\ complete' = isBoardComplete(Deref(heap, b))
          /\ solvedRes' = isBoardSolved(Deref(heap, b))
    /\ pc' = "checked"
    /\ UNCHANGED << op, heap, board, board0, cube, stack, ret, stats, result,
                    rng, genVars,
                    runVars, uiVars >>

Next ==
    \/ solveBoardWithStats
    \/ solveBoard
    \/ backtrackEnter
    \/ backtrackTry
    \/ backtrackResume
    \/ solveReturn
    \/ generatePuzzle
    \/ generateClone
    \/ generateRemove
    \/ checkInput
    \/ checkOutput

Spec == Init /\ [][Next]_vars

\* the steps of a running solve
SolverStep ==
    \/ backtrackEnter
    \/ backtrackTry
    \/ backtrackResume
    \/ solveReturn

\* the solve is synchronous: once called, it runs until it returns
FairSpec == Spec /\ WF_vars(SolverStep)

\* ---------------------------------------------------------------- scenarios
\* a fresh statistics object
NewStats == [solved |-> FALSE, backtracks |-> 0]

\* a generated puzzle is solved the way the page solves the board it shows:
\* on a clone, with a cube given by the caller or built from the stream
solvePuzzle ==
    /\ pc = "done"
    /\ op = "generatePuzzle"
    /\ toRemove(clues) <= MaxResolveHoles
    /\ \/ \E cb \in GivenCubes : cube' = cb /\ rng' = rng
       \/ LET built == buildCandidateCube(rng)
          IN  cube' = built.cube /\ rng' = built.rng
    /\ LET cl == cloneBoard(heap, puzzle)
       IN  /\ heap' = cl.heap
           /\ board' = cl.board
           /\ clone' = cl.board
    /\ board0' = Deref(heap, puzzle)
    /\ op' = "solvePuzzle"
    /\ stats' = NewStats
    /\ stack' = << >>
    /\ placements' = 0
    /\ pc' = "call"
    /\ UNCHANGED << ret, result, genVars, chkVars, first, written, uiVars >>

NextGen ==
    \/ generatePuzzle
    \/ backtrackEnter
    \/ backtrackTry
    \/ backtrackResume
    \/ solveReturn
    \/ generateClone
    \/ generateRemove
    \/ solvePuzzle
    \/ checkOutput

\* generatePuzzle, then a solve of the puzzle it returned
GenSpec == Init /\ [][NextGen]_vars

\* the sample puzzle of the README (loadSample)
SampleRows ==
    << << 5, 3, 0, 0, 7, 0, 0, 0, 0 >>,
       << 6, 0, 0, 1, 9, 5, 0, 0, 0 >>,
       << 0, 9, 8, 0, 0, 0, 0, 6, 0 >>,
       << 8, 0, 0, 0, 6, 0, 0, 0, 3 >>,
       << 4, 0, 0, 8, 0, 3, 0, 0, 1 >>,
       << 7, 0, 0, 0, 2, 0, 0, 0, 6 >>,
       << 0, 6, 0, 0, 0, 0, 2, 8, 0 >>,
       << 0, 0, 0, 4, 1, 9, 0, 0, 5 >>,
       << 0, 0, 0, 0, 8, 0, 0, 7, 9 >> >>

SamplePuzzle == [r \in Idx |-> [c \in Idx |-> SampleRows[r + 1][c + 1]]]

SampleSeeds == 0 .. MaxSampleSeed

\* solveBoardWithStats on the sample puzzle, with a given or a built cube
solveSample ==
    /\ pc = "idle"
    /\ \/ \E cb \in GivenCubes : cube' = cb /\ rng' = rng
       \/ \E seed \in SampleSeeds :
             LET built == buildCandidateCube(seed)
             IN  cube' = built.cube /\ rng' = built.rng
    /\ LET nb == NewBoard(heap, SamplePuzzle)
       IN  /\ heap' = nb.heap
           /\ board' = nb.board
    /\ board0' = SamplePuzzle
    /\ op' = "solveSample"
    /\ stats' = NewStats
    /\ stack' = << >>
    /\ placements' = 0
    /\ pc' = "call"
    /\ UNCHANGED << ret, result, genVars, chkVars, first, clone, written, uiVars >>

NextSample ==
    \/ solveSample
    \/ backtrackEnter
    \/ backtrackTry
    \/ backtrackResume
    \/ solveReturn

SampleSpec == Init /\ [][NextSample]_vars

\* a second solveBoardWithStats on a board equal to the input of the first,
\* with the cube the first was given
solveAgain ==
    /\ pc = "done"
    /\ op = "solveBoardWithStats"
    /\ first' = [board |-> B, solved |-> stats.solved,
                 backtracks |-> stats.backtracks]
    /\ LET nb == NewBoard(heap, board0)
       IN  /\ heap' = nb.heap
           /\ board' = nb.board
    /\ op' = "solveAgain"
    /\ stats' = NewStats
    /\ stack' = << >>
    /\ placements' = 0
    /\ pc' = "call"
    /\ UNCHANGED << board0, cube, ret, result, rng, genVars, chkVars, clone,
                    written, uiVars >>

NextTwice ==
    \/ solveBoardWithStats
    \/ backtrackEnter
    \/ backtrackTry
    \/ backtrackResume
    \/ solveReturn
    \/ solveAgain

\* two solves of equal boards with one cube, one after the other
TwiceSpec == Init /\ [][NextTwice]_vars

\* the boards cloneBoard is called on: the full boards of the inputs
CloneInputs == { InputBoard(v, { }) : v \in Variants }

WriteCells == { << 0, 0 >>, << 8, 8 >> }

WriteValues == { 0, 7 }

\* cloneBoard(board)
cloneBoardCall ==
    /\ pc = "idle"
    /\ \E b \in CloneInputs :
          LET nb == NewBoard(heap, b)
              cl == cloneBoard(nb.heap, nb.board)
          IN  /\ heap' = cl.heap
              /\ board' = nb.board
              /\ clone' = cl.board
              /\ board0' = b
    /\ written' = << >>
    /\ op' = "cloneBoard"
    /\ pc' = "cloned"
    /\ UNCHANGED << cube, stack, ret, stats, result, rng, genVars, chkVars,
                    first, placements, uiVars >>

\* a cell write to the board that was cloned
writeOriginal ==
    /\ pc = "cloned"
    /\ Len(written) < MaxWrites
    /\ \E p \in WriteCells : \E v \in WriteValues :
          /\ heap' = WriteCell(heap, board, p[1], p[2], v)
          /\ written' = Append(written, [to |-> "board", pos |-> p, val |-> v])
    /\ UNCHANGED << pc, op, board, board0, cube, stack, ret, stats, result,
                    rng, genVars, chkVars, first, clone, placements,
                    uiVars >>

\* a cell write to the clone
writeClone ==
    /\ pc = "cloned"
    /\ Len(written) < MaxWrites
    /\ \E p \in WriteCells : \E v \in WriteValues :
          /\ heap' = WriteCell(heap, clone, p[1], p[2], v)
          /\ written' = Append(written, [to |-> "clone", pos |-> p, val |-> v])
    /\ UNCHANGED << pc, op, board, board0, cube, stack, ret, stats, result,
                    rng, genVars, chkVars, first, clone, placements,
                    uiVars >>

NextClone ==
    \/ cloneBoardCall
    \/ writeOriginal
    \/ writeClone

\* cloneBoard, then writes to either board
CloneSpec == Init /\ [][NextClone]_vars

Streams == 0 .. MaxStream

CubeSeeds == 0 .. MaxCubeSeed

\* shuffleArray([1, 2, 3, 4, 5, 6, 7, 8, 9]) in some state of the stream;
\* positions holds the array it returned
shuffleArrayCall ==
    /\ pc = "idle"
    /\ \E s \in Streams :
          LET sh == shuffleArray(AscendingRow, s)
          IN  /\ positions' = sh.arr
              /\ rng' = sh.rng
    /\ op' = "shuffleArray"
    /\ pc' = "shuffled"
    /\ UNCHANGED << heap, board, board0, cube, stack, ret, stats, result,
                    clues, solution, puzzle, i, chkVars, runVars, uiVars >>

\* buildCandidateCube()
buildCandidateCubeCall ==
    /\ pc = "idle"
    /\ \E s \in CubeSeeds :
          LET built == buildCandidateCube(s)
          IN  /\ cube' = built.cube
              /\ rng' = built.rng
    /\ op' = "buildCandidateCube"
    /\ pc' = "built"
    /\ UNCHANGED << heap, board, board0, stack, ret, stats, result, genVars,
                    chkVars, runVars, uiVars >>

NextRandomCalls ==
    \/ shuffleArrayCall
    \/ buildCandidateCubeCall

\* the random helpers called on their own
RandomSpec == Init /\ [][NextRandomCalls]_vars

\* cells whose values can be exchanged in the completed sample: a board
\* with these four empty has two completions
OpenHoles == { << 0, 3 >>, << 0, 4 >>, << 3, 3 >>, << 3, 4 >> }

\* one more cell a caller may have left empty
ExtraHoles == { { }, { << 0, 1 >> }, { << 8, 5 >> } }

OpenBoards == { InputBoard("none", OpenHoles \cup e) : e \in ExtraHoles }

\* solveBoardWithStats on a board with several completions, with a given
\* or a built cube
solveOpenBoard ==
    /\ pc = "idle"
    /\ \/ \E cb \in GivenCubes : cube' = cb /\ rng' = rng
       \/ \E seed \in Seeds :
             LET built == buildCandidateCube(seed)
             IN  cube' = built.cube /\ rng' = built.rng
    /\ \E b \in OpenBoards :
          LET nb == NewBoard(heap, b)
          IN  /\ heap' = nb.heap
              /\ board' = nb.board
              /\ board0' = b
    /\ op' = "solveBoardWithStats"
    /\ stats' = NewStats
    /\ stack' = << >>
    /\ placements' = 0
    /\ pc' = "call"
    /\ UNCHANGED << ret, result, genVars, chkVars, first, clone, written,
                    uiVars >>

NextOpen ==
    \/ solveOpenBoard
    \/ backtrackEnter
    \/ backtrackTry
    \/ backtrackResume
    \/ solveReturn

\* solves of boards that have more than one completion
OpenSpec == Init /\ [][NextOpen]_vars

\* ---------------------------------------------------------------- page flow
\* readBoard(): '' reads as 0, the text of a digit as the digit
readBoard ==
    [r \in Idx |-> [c \in Idx |->
        IF cells[r][c] = "" THEN 0 ELSE parseInt(cells[r][c])]]

\* the cells the user types in, and the keys typed
TypedCells == { << 0, 1 >>, << 0, 3 >>, << 8, 5 >> }

TypedKeys == { "", "6", "0" }

\* the page once the user has typed the completed sample in
PageInit ==
    /\ NoCall
    /\ cells = writeBoard(BaseBoard)
    /\ modalHidden = TRUE
    /\ status = NoStatus
    /\ timers = << >>
    /\ force = FALSE
    /\ userCells = [r \in Idx |-> [c \in Idx |-> TRUE]]
    /\ currentSolution = NullBoard

\* the input handler of a cell
inputCell ==
    /\ pc = "idle"
    /\ \E p \in TypedCells : \E t \in TypedKeys :
          /\ cells' = [cells EXCEPT ![p[1]][p[2]] = Filter(t)]
          /\ userCells' = [userCells EXCEPT ![p[1]][p[2]] = (Filter(t) # "")]
    /\ status' = NoStatus
    /\ UNCHANGED << pc, op, heap, board, board0, cube, stack, ret, stats,
                    result, rng, genVars, chkVars, runVars, modalHidden,
                    timers, force, currentSolution >>

NeedsConfirm_never(cf, f) == FALSE

\* conflicts.length > 0 && !force
NeedsConfirm(cf, f) == Len(cf) > 0 /\ ~ f

\* attemptSolve(force), called with the dialog hidden or not
attemptSolve(f, hidden) ==
    LET b == readBoard
        cf == validateBoard(b)
    IN  /\ force' = f
        /\ IF isBoardComplete(b)
           THEN /\ status' = IF Len(cf) = 0
                             THEN Status("already complete", "success", 0)
                             ELSE Status("full with conflicts", "error",
                                         Len(cf))
                /\ modalHidden' = hidden
                /\ timers' = timers
           ELSE IF NeedsConfirm(cf, f)
           THEN /\ modalHidden' = FALSE
                /\ status' = Status("conflicts detected", "warning", Len(cf))
                /\ timers' = timers
           ELSE /\ status' = Status("solving", "", 0)
                /\ modalHidden' = hidden
                /\ timers' = Append(timers, [board |-> b, force |-> f,
                                             conflicts |-> Len(cf)])
        /\ UNCHANGED << pc, op, heap, board, board0, cube, stack, ret, stats,
                        result, rng, genVars, chkVars, runVars, cells,
                        userCells, currentSolution >>

\* click on Solve
btnSolveClick ==
    /\ pc = "idle"
    /\ Len(timers) < MaxTimers
    /\ attemptSolve(FALSE, modalHidden)

\* click on Proceed, in the dialog
modalProceedClick ==
    /\ pc = "idle"
    /\ ~ modalHidden
    /\ Len(timers) < MaxTimers
    /\ attemptSolve(TRUE, TRUE)

\* click on Cancel, in the dialog
modalCancelClick ==
    /\ pc = "idle"
    /\ ~ modalHidden
    /\ modalHidden' = TRUE
    /\ status' = Status("cancelled, fix the cells", "warning", 0)
    /\ UNCHANGED << pc, op, heap, board, board0, cube, stack, ret, stats,
                    result, rng, genVars, chkVars, runVars, cells, timers,
                    force, userCells, currentSolution >>

\* click on the overlay around the dialog
modalOverlayClick ==
    /\ pc = "idle"
    /\ ~ modalHidden
    /\ modalHidden' = TRUE
    /\ status' = Status("cancelled", "warning", 0)
    /\ UNCHANGED << pc, op, heap, board, board0, cube, stack, ret, stats,
                    result, rng, genVars, chkVars, runVars, cells, timers,
                    force, userCells, currentSolution >>

\* the oldest pending callback runs: clone, cube, and the call of the solver
solveCallback ==
    /\ pc = "idle"
    /\ timers # << >>
    /\ LET t == Head(timers)
           nb == NewBoard(<< >>, t.board)
           cl == cloneBoard(nb.heap, nb.board)
       IN  /\ heap' = cl.heap
           /\ board' = cl.board
           /\ clone' = cl.board
           /\ board0' = t.board
           /\ force' = t.force
    /\ \E seed \in Seeds :
          LET built == buildCandidateCube(seed)
          IN  /\ cube' = built.cube
              /\ rng' = built.rng
    /\ timers' = Tail(timers)
    /\ op' = "attemptSolve"
    /\ stats' = NewStats
    /\ stack' = << >>
    /\ placements' = 0
    /\ pc' = "call"
    /\ UNCHANGED << ret, result, genVars, chkVars, first, written, cells,
                    modalHidden, status, userCells, currentSolution >>

\* the solver returned into the callback, which shows the result and ends;
\* what the callback held is released
solveFinish ==
    /\ pc = "done"
    /\ op = "attemptSolve"
    /\ IF stats.solved
       THEN /\ cells' = writeBoard(Deref(heap, clone))
            /\ status' = Status("solved", "success", 0)
       ELSE /\ cells' = cells
            /\ status' = Status("no solution", "error", 0)
    /\ pc' = "idle"
    /\ op' = "none"
    /\ heap' = << >>
    /\ board' = NullBoard
    /\ clone' = NullBoard
    /\ board0' = EmptyBoard
    /\ cube' = AscendingCube
    /\ stats' = NewStats
    /\ rng' = 0
    /\ placements' = 0
    /\ UNCHANGED << stack, ret, result, genVars, chkVars, first, written,
                    modalHidden, timers, force, userCells,
                    currentSolution >>

NextPage ==
    \/ inputCell
    \/ btnSolveClick
    \/ modalProceedClick
    \/ modalCancelClick
    \/ modalOverlayClick
    \/ solveCallback
    \/ backtrackEnter
    \/ backtrackTry
    \/ backtrackResume
    \/ solveReturn
    \/ solveFinish

\* the solve flow of the page
PageSpec == PageInit /\ [][NextPage]_vars

\* ---------------------------------------------------------------- generate flow
\* the values of the difficulty select
Difficulties == { "easy", "medium", "hard" }

\* switch (difficulty): the number of clues
CluesOf(d) ==
    CASE d = "easy"   -> 42
      [] d = "medium" -> 32
      [] d = "hard"   -> 24
      [] OTHER        -> 32

\* clearBoard(): every cell emptied, userCells all false, no solution, no
\* status
clearBoard ==
    /\ cells' = EmptyCells
    /\ userCells' = NoUserCells
    /\ currentSolution' = NullBoard
    /\ status' = NoStatus

\* click on Clear
btnClearClick ==
    /\ pc = "idle"
    /\ clearBoard
    /\ UNCHANGED << pc, op, heap, board, board0, cube, stack, ret, stats,
                    result, rng, genVars, chkVars, runVars, modalHidden,
                    timers, force >>

\* click on Generate: generateRandomPuzzle() up to its setTimeout
btnGenerateClick ==
    /\ pc = "idle"
    /\ Len(timers) < MaxPending
    /\ cells' = EmptyCells
    /\ userCells' = NoUserCells
    /\ currentSolution' = NullBoard
    /\ status' = Status("generating", "", 0)
    /\ \E d \in Difficulties :
          timers' = Append(timers, [clues |-> CluesOf(d)])
    /\ UNCHANGED << pc, op, heap, board, board0, cube, stack, ret, stats,
                    result, rng, genVars, chkVars, runVars, modalHidden,
                    force >>

\* the oldest pending generate callback runs: generatePuzzle(clues) up to
\* the call of the solver
generateCallback ==
    /\ pc = "idle"
    /\ timers # << >>
    /\ clues' = Head(timers).clues
    /\ timers' = Tail(timers)
    /\ \E seed \in Seeds :
          LET nb == NewBoard(<< >>, EmptyBoard)
              built == buildCandidateCube(seed)
          IN  /\ heap' = nb.heap
              /\ board' = nb.board
              /\ cube' = built.cube
              /\ rng' = built.rng
    /\ board0' = EmptyBoard
    /\ op' = "generatePuzzle"
    /\ stats' = NewStats
    /\ stack' = << >>
    /\ placements' = 0
    /\ pc' = "call"
    /\ UNCHANGED << ret, result, solution, puzzle, positions, i, chkVars,
                    first, clone, written, cells, modalHidden, status, force,
                    userCells, currentSolution >>

\* generatePuzzle returned into the callback: the solution is kept, the
\* non-zero cells of the puzzle are written and marked, the status is set;
\* the callback ends and what it held, but the boards, is released
generateFinish ==
    /\ pc = "done"
    /\ op = "generatePuzzle"
    /\ LET P == Deref(heap, puzzle)
       IN  /\ cells' = [r \in Idx |-> [c \in Idx |->
                          IF P[r][c] # 0 THEN toString(P[r][c])
                          ELSE cells[r][c]]]
           /\ userCells' = [r \in Idx |-> [c \in Idx |->
                              IF P[r][c] # 0 THEN TRUE ELSE userCells[r][c]]]
    /\ currentSolution' = Deref(heap, solution)
    /\ status' = Status("generated", "success", clues)
    /\ pc' = "idle"
    /\ op' = "none"
    /\ cube' = AscendingCube
    /\ stats' = NewStats
    /\ rng' = 0
    /\ positions' = << >>
    /\ i' = 0
    /\ placements' = 0
    /\ UNCHANGED << heap, board, board0, stack, ret, result, clues, solution,
                    puzzle, chkVars, first, clone, written, modalHidden,
                    timers, force >>

NextGenerate ==
    \/ btnGenerateClick
    \/ btnClearClick
    \/ generateCallback
    \/ backtrackEnter
    \/ backtrackTry
    \/ backtrackResume
    \/ solveReturn
    \/ generateClone
    \/ generateRemove
    \/ generateFinish

\* the generate flow of the page: Generate and Clear clicks, and the delayed
\* callbacks
GenerateSpec == Init /\ [][NextGenerate]_vars

\* ================================================================ claims
\* a solve has returned to its caller
SolveDone ==
    /\ pc = "done"
    /\ op \in { "solveBoardWithStats", "solveBoard" }

\* what the caller was told
ReportedSolved == IF op = "solveBoard" THEN result ELSE stats.solved

InRange(b) == \A r \in Idx : \A c \in Idx : b[r][c] \in 0 .. 9

EmptyCellsOf(b) == { p \in Pos : b[p[1]][p[2]] = 0 }

EmptyCount(b) == Cardinality(EmptyCellsOf(b))

\* the rows, the columns and the boxes, as sets of positions
RowUnit(r) == { << r, c >> : c \in Idx }
ColUnit(c) == { << r, c >> : r \in Idx }
BoxUnit(k) == { p \in Pos : (p[1] \div 3) * 3 + (p[2] \div 3) = k }
Units == { RowUnit(r) : r \in Idx } \cup { ColUnit(c) : c \in Idx }
            \cup { BoxUnit(k) : k \in Idx }

\* no non-zero value occurs twice in a row, a column or a box
NoDuplicate(b) ==
    \A u \in Units : \A p \in u : \A q \in u :
        (p # q /\ b[p[1]][p[2]] # 0) => b[p[1]][p[2]] # b[q[1]][q[2]]

Fill(b, f) ==
    [r \in Idx |-> [c \in Idx |->
        IF << r, c >> \in DOMAIN f THEN f[<< r, c >>] ELSE b[r][c]]]

\* the empty cells of b can be filled so that no unit has a duplicate
Satisfiable(b) ==
    \E f \in [EmptyCellsOf(b) -> Digits] : NoDuplicate(Fill(b, f))

\* C1: whenever solveBoard or solveBoardWithStats reports solved = true on
\* an input board with cells in 0..9, the board it mutated satisfies
\* isBoardSolved.
C1_SolvedBoardIsSolved ==
    (SolveDone /\ InRange(board0) /\ ReportedSolved) => isBoardSolved(B)

\* C2: if the empty cells of the input board cannot be filled without a
\* duplicate in some row, column or box, solveBoardWithStats returns
\* solved = false.
C2_UnsatisfiableIsNotSolved ==
    (SolveDone /\ op = "solveBoardWithStats" /\ ~ Satisfiable(board0))
        => ~ stats.solved

\* C3: when solveBoardWithStats returns solved = false, the board equals
\* the board as it was at the call.
C3_FailureRestoresBoard ==
    (SolveDone /\ ~ stats.solved) => B = board0

\* a failed solve that had placed values and reset them
C3_Witness ==
    /\ SolveDone
    /\ ~ stats.solved
    /\ stats.backtracks > 0
    /\ B = board0

\* C4: at every step of the search and at return, every cell that was
\* non-zero in the input board still holds its input value.
C4_GivenCellsKept ==
    (pc \in { "call", "try", "ret", "done" }) =>
        \A r \in Idx : \A c \in Idx :
            board0[r][c] # 0 => B[r][c] = board0[r][c]

\* a search with given cells, in the middle of the recursion, after an undo
C4_Witness ==
    /\ pc = "try"
    /\ op = "solveBoardWithStats"
    /\ Len(stack) = 2
    /\ stats.backtracks > 0
    /\ EmptyCount(B) < EmptyCount(board0)
    /\ \E r \in Idx : \E c \in Idx : board0[r][c] # 0 /\ B[r][c] = board0[r][c]

\* the cells the active calls of backtrack() have filled: every frame but
\* the one that is choosing its candidate
FilledFrames ==
    IF pc = "try" THEN Len(stack) - 1 ELSE Len(stack)

\* C5: each recursive call of backtrack() is made with strictly fewer empty
\* cells than its caller (the call at depth d sees d fewer empty cells than
\* the input), each level tries at most 9 candidates, and the search
\* eventually returns.
C5_Terminates ==
    /\ [](pc \in { "call", "try" } =>
            /\ EmptyCount(B) = EmptyCount(board0) - FilledFrames
            /\ \A d \in 1 .. Len(stack) : stack[d].k \in 0 .. 9)
    /\ (pc = "call") ~> (pc \in { "done", "clone" })

\* a search that went three calls deep and came back to answer
C5_Witness ==
    /\ SolveDone
    /\ EmptyCount(board0) >= 3
    /\ stats.solved
    /\ stats.backtracks >= 1

\* the other cells of the row, the column and the box of each cell
PeersOf ==
    [p \in Pos |->
        { q \in Pos :
            /\ q # p
            /\ \/ q[1] = p[1]
               \/ q[2] = p[2]
               \/ (q[1] \div 3 = p[1] \div 3 /\ q[2] \div 3 = p[2] \div 3) }]

\* the cells of b that hold v among the set of positions s
Holding(b, s, v) == { q \in s : b[q[1]][q[2]] = v }

\* C6: isValidPlacement(board, row, col, value) is false exactly when some
\* other cell of the row, the column or the box holds value; when the cell
\* itself holds value and the result is true, value occurs exactly once in
\* the union of that row, column and box.  Checked for every cell and value
\* of every input board and of every generated solution and puzzle.
C6_PlacementIffNoPeerHolds ==
    (pc = "checked" /\ op \in { "validateBoard", "generatePuzzle" }) =>
        \A p \in Pos : \A v \in Digits :
            /\ isValidPlacement(checked, p[1], p[2], v)
                  = (Holding(checked, PeersOf[p], v) = { })
            /\ (checked[p[1]][p[2]] = v
                    /\ isValidPlacement(checked, p[1], p[2], v))
                  => Cardinality(Holding(checked, PeersOf[p] \cup { p }, v)) = 1

\* a board on which the answer is true for some cell's own value and false
\* for another's, with an empty cell as well
C6_Witness ==
    /\ pc = "checked"
    /\ \E p \in Pos :
          /\ checked[p[1]][p[2]] \in Digits
          /\ isValidPlacement(checked, p[1], p[2], checked[p[1]][p[2]])
    /\ \E p \in Pos :
          /\ checked[p[1]][p[2]] \in Digits
          /\ ~ isValidPlacement(checked, p[1], p[2], checked[p[1]][p[2]])
    /\ \E p \in Pos : checked[p[1]][p[2]] = 0

\* the positions listed by validateBoard
Listed == { << conflicts[k].row, conflicts[k].col >> : k \in 1 .. Len(conflicts) }

\* C7: validateBoard returns, in strictly increasing row-major order (so
\* each position at most once), exactly the non-zero cells that hold a value
\* outside 1..9 or share their value with another cell of their row, column
\* or box; the all-zero board yields the empty list, and two equal non-zero
\* cells in one row are both listed.
C7_ValidateBoardLists ==
    pc = "checked" =>
        /\ \A k \in 1 .. (Len(conflicts) - 1) :
              conflicts[k].row * 9 + conflicts[k].col
                 < conflicts[k + 1].row * 9 + conflicts[k + 1].col
        /\ \A p \in Pos :
              (p \in Listed) <=>
                 /\ checked[p[1]][p[2]] # 0
                 /\ \/ checked[p[1]][p[2]] \notin 1 .. 9
                    \/ Holding(checked, PeersOf[p], checked[p[1]][p[2]]) # { }
        /\ (checked = EmptyBoard => conflicts = << >>)
        /\ \A r \in Idx : \A c1 \in Idx : \A c2 \in Idx :
              (c1 # c2 /\ checked[r][c1] # 0 /\ checked[r][c1] = checked[r][c2])
                 => (<< r, c1 >> \in Listed /\ << r, c2 >> \in Listed)

\* a board with two equal non-zero cells in one row, both listed, and a
\* third conflicting cell in another row
C7_Witness ==
    /\ pc = "checked"
    /\ Len(conflicts) >= 3
    /\ \E r \in Idx : \E c1 \in Idx : \E c2 \in Idx :
          /\ c1 < c2
          /\ checked[r][c1] # 0
          /\ checked[r][c1] = checked[r][c2]
          /\ << r, c1 >> \in Listed
          /\ << r, c2 >> \in Listed

\* every row, column and box of b holds each digit exactly once
EachDigitOnce(b) ==
    \A u \in Units : \A d \in Digits : Cardinality(Holding(b, u, d)) = 1

\* C8: isBoardSolved is true exactly when no cell is 0 and every row, column
\* and box contains each of 1..9 exactly once; a board with no empty cell
\* and an empty conflict list is such a board.
C8_SolvedIffValidSudoku ==
    pc = "checked" =>
        /\ solvedRes = (EmptyCellsOf(checked) = { } /\ EachDigitOnce(checked))
        /\ (complete /\ conflicts = << >>) => EachDigitOnce(checked)

\* a generated solution, found solved
C8_Witness ==
    /\ pc = "checked"
    /\ op = "generatePuzzle"
    /\ solvedRes
    /\ checked # BaseBoard

\* generatePuzzle has returned
GenerateDone ==
    /\ pc \in { "done", "checked" }
    /\ op = "generatePuzzle"

NonZeroCount(b) == Cells - EmptyCount(b)

\* C9: for clueCount in 0..81 the puzzle has exactly clueCount non-zero
\* cells, the removed positions being pairwise distinct; for
\* clueCount >= 81 nothing is removed and the puzzle equals the solution.
C9_PuzzleHasClueCount ==
    GenerateDone =>
        /\ clues \in 0 .. 81 =>
              /\ NonZeroCount(Deref(heap, puzzle)) = clues
              /\ i = 81 - clues
        /\ \A a \in 0 .. (i - 1) : \A b \in 0 .. (i - 1) :
              a # b => positions[a] # positions[b]
        /\ clues >= 81 =>
              /\ i = 0
              /\ Deref(heap, puzzle) = Deref(heap, solution)

\* a medium puzzle: 49 cells removed, 32 left
C9_Witness ==
    /\ GenerateDone
    /\ clues = 32
    /\ i = 49
    /\ NonZeroCount(Deref(heap, puzzle)) = 32

\* C10: puzzle and solution agree on every non-zero cell of puzzle, and
\* neither the cloning nor the removal of cells from puzzle changes the
\* board generateFullSolution produced, which is the solution returned.
C10_SolutionUntouched ==
    /\ [](GenerateDone =>
            \A p \in Pos :
                Deref(heap, puzzle)[p[1]][p[2]] # 0 =>
                    Deref(heap, puzzle)[p[1]][p[2]]
                       = Deref(heap, solution)[p[1]][p[2]])
    /\ [][(op = "generatePuzzle" /\ pc \in { "clone", "remove" }) =>
            Deref(heap', solution') = Deref(heap, board)]_vars

\* a hard puzzle returned: 57 cells removed from the clone, none from the
\* solution
C10_Witness ==
    /\ GenerateDone
    /\ clues = 24
    /\ i = 57
    /\ EmptyCount(Deref(heap, puzzle)) = 57
    /\ EmptyCount(Deref(heap, solution)) = 0

\* C11: generateFullSolution always succeeds: the solve of the empty board
\* with the built cube returns solved = true and leaves a board that
\* satisfies isBoardSolved, so the solution generatePuzzle returns is
\* complete and conflict-free.
C11_FullSolutionSucceeds ==
    /\ (op = "generatePuzzle" /\ pc = "clone") =>
          /\ board0 = EmptyBoard
          /\ stats.solved
          /\ EmptyCellsOf(B) = { }
          /\ EachDigitOnce(B)
    /\ GenerateDone =>
          /\ EmptyCellsOf(Deref(heap, solution)) = { }
          /\ EachDigitOnce(Deref(heap, solution))
    /\ (GenerateDone /\ pc = "checked" /\ checked = Deref(heap, solution)) =>
          /\ solvedRes
          /\ complete
          /\ conflicts = << >>

\* a solution that was returned after a search with backtracking, and
\* found solved by isBoardSolved
C11_Witness ==
    /\ GenerateDone
    /\ pc = "checked"
    /\ checked = Deref(heap, solution)
    /\ stats.solved
    /\ stats.backtracks > 0
    /\ clues = 42
    /\ solvedRes

\* a solve of a generated puzzle has returned
PuzzleSolveDone ==
    /\ pc = "done"
    /\ op = "solvePuzzle"

\* C12: every puzzle generatePuzzle returns is valid and solvable:
\* validateBoard reports no conflict on it, the solution returned with it
\* completes it, and solveBoardWithStats on it, with the ascending, the
\* descending or a built cube, returns solved = true with a board that
\* satisfies isBoardSolved and keeps the clues.
C12_PuzzleValidAndSolvable ==
    /\ (GenerateDone /\ pc = "checked" /\ checked = Deref(heap, puzzle)) =>
          conflicts = << >>
    /\ GenerateDone =>
          /\ NoDuplicate(Deref(heap, puzzle))
          /\ EachDigitOnce(Deref(heap, solution))
          /\ \A p \in Pos :
                Deref(heap, puzzle)[p[1]][p[2]]
                   \in { 0, Deref(heap, solution)[p[1]][p[2]] }
    /\ PuzzleSolveDone =>
          /\ stats.solved
          /\ EmptyCellsOf(B) = { }
          /\ EachDigitOnce(B)
    /\ (pc = "checked" /\ op = "solvePuzzle") => solvedRes
          /\ \A p \in Pos : board0[p[1]][p[2]] \in { 0, B[p[1]][p[2]] }

\* an easy puzzle, solved with the descending cube after some backtracking
C12_Witness ==
    /\ PuzzleSolveDone
    /\ clues = 42
    /\ cube = DescendingCube
    /\ EmptyCount(board0) = 39
    /\ stats.solved
    /\ stats.backtracks > 0

\* C13: every puzzle generatePuzzle returns has exactly one completion that
\* is a valid Sudoku: whatever valid completion a solve of the puzzle
\* reaches, it is the solution returned with the puzzle.
C13_UniqueSolution ==
    (PuzzleSolveDone /\ stats.solved /\ EachDigitOnce(B))
        => B = Deref(heap, solution)

\* a solve of the sample puzzle has returned
SampleDone ==
    /\ pc = "done"
    /\ op = "solveSample"

\* C14: solving the sample puzzle returns solved = true and leaves its
\* completion, whose first row is 5,3,4,6,7,8,9,1,2, with the ascending
\* cube (which reaches the smallest completion), the descending cube (which
\* reaches the largest) and the built cubes alike.
C14_SampleSolved ==
    SampleDone =>
        /\ stats.solved
        /\ B[0] = [c \in Idx |-> << 5, 3, 4, 6, 7, 8, 9, 1, 2 >>[c + 1]]
        /\ B = BaseBoard
        /\ EachDigitOnce(B)
        /\ \A p \in Pos :
              SamplePuzzle[p[1]][p[2]] \in { 0, B[p[1]][p[2]] }

\* the sample solved with the descending cube, after hundreds of undos
C14_Witness ==
    /\ SampleDone
    /\ cube = DescendingCube
    /\ stats.solved
    /\ stats.backtracks > 400
    /\ B = BaseBoard

\* the empty cells of b can be filled, one after the other, each with a
\* digit that no other cell of its row, column or box holds
RECURSIVE Completable(_)
Completable(b) ==
    IF EmptyCellsOf(b) = { } THEN TRUE
    ELSE LET p == CHOOSE q \in EmptyCellsOf(b) : TRUE
         IN  \E d \in Digits :
                /\ Holding(b, PeersOf[p], d) = { }
                /\ Completable([b EXCEPT ![p[1]][p[2]] = d])

\* C15: solveBoard(board) is solveBoardWithStats(board) without a cube: the
\* cube it searches with is one buildCandidateCube built, not the ascending
\* one, it returns the solved flag, and that flag is the one
\* solveBoardWithStats returns on an equal board with any cube, the
\* ascending one included: each of them says whether the board can be
\* completed.
C15_SolveBoardIsSolveWithStats ==
    /\ SolveDone => ReportedSolved = Completable(board0)
    /\ (pc = "done" /\ op = "solveBoard") =>
          /\ result = stats.solved
          /\ cube # AscendingCube
          /\ \E seed \in Seeds : cube = buildCandidateCube(seed).cube

\* solveBoard returned true after a search that had to undo a placement
C15_Witness ==
    /\ pc = "done"
    /\ op = "solveBoard"
    /\ result
    /\ stats.backtracks > 0
    /\ cube # AscendingCube

\* the board b after those of the writes ws that went to the board `to`
RECURSIVE Replay(_, _, _)
Replay(b, ws, to) ==
    IF ws = << >> THEN b
    ELSE LET w == Head(ws)
         IN  Replay(IF w.to = to
                    THEN [b EXCEPT ![w.pos[1]][w.pos[2]] = w.val]
                    ELSE b,
                    Tail(ws), to)

\* C16: cloneBoard(B) returns a board equal to B in every cell, and the two
\* are independent: after any writes, each board is B changed by the writes
\* made to it alone.
C16_CloneEqualAndIndependent ==
    pc = "cloned" =>
        /\ Deref(heap, board) = Replay(board0, written, "board")
        /\ Deref(heap, clone) = Replay(board0, written, "clone")

\* a clone and its original after one write to each, now three different
\* boards
C16_Witness ==
    /\ pc = "cloned"
    /\ Len(written) = 2
    /\ written[1].to = "clone"
    /\ written[2].to = "board"
    /\ Deref(heap, clone) # board0
    /\ Deref(heap, board) # board0
    /\ Deref(heap, clone) # Deref(heap, board)

\* the array a holds each of 1..9 exactly once, at the indices 0..8
DigitsOnce(a) ==
    /\ DOMAIN a = Idx
    /\ \A d \in Digits : Cardinality({ k \in Idx : a[k] = d }) = 1

\* C17: every cube buildCandidateCube returns has, for each of the 81
\* cells, a sequence of length 9 that holds each of 1..9 exactly once, and
\* so has every array shuffleArray returns for [1..9].
C17_CubeOfPermutations ==
    /\ pc = "built" =>
          /\ DOMAIN cube = Idx
          /\ \A r \in Idx :
                /\ DOMAIN cube[r] = Idx
                /\ \A c \in Idx : DigitsOnce(cube[r][c])
    /\ pc = "shuffled" => DigitsOnce(positions)

\* a built cube whose cells are not all in the same order
C17_Witness ==
    /\ pc = "built"
    /\ cube[0][0] # AscendingRow
    /\ cube[0][0] # cube[8][8]
    /\ DigitsOnce(cube[8][8])

\* C18: given the cube, the solver is reproducible: a second solve of an
\* equal board with the same cube ends with an equal board, an equal solved
\* flag and an equal backtrack count, and no step of a solve changes the
\* cube.
C18_Reproducible ==
    /\ []((pc = "done" /\ op = "solveAgain") =>
            /\ B = first.board
            /\ stats.solved = first.solved
            /\ stats.backtracks = first.backtracks)
    /\ [][(pc \in { "call", "try", "ret" }) => cube' = cube]_vars

\* a second solve that ended like the first, both after undos
C18_Witness ==
    /\ pc = "done"
    /\ op = "solveAgain"
    /\ first.solved
    /\ first.backtracks > 0
    /\ stats.backtracks = first.backtracks
    /\ B = first.board
    /\ cube = DescendingCube

\* the cells of b that hold a value some other cell of their row, column or
\* box holds
Clashing(b) ==
    { p \in Pos :
        /\ b[p[1]][p[2]] # 0
        /\ Holding(b, PeersOf[p], b[p[1]][p[2]]) # { } }

\* the solver is running for the page, or has just returned to it
PageSolve ==
    /\ op = "attemptSolve"
    /\ pc \in { "call", "try", "ret", "done" }

C20_FullBoardIsNotSolved ==
    /\ [](\A k \in 1 .. Len(timers) : EmptyCellsOf(timers[k].board) # { })
    /\ [](PageSolve => EmptyCellsOf(board0) # { })
    /\ [][((btnSolveClick \/ modalProceedClick)
              /\ EmptyCellsOf(readBoard) = { }) =>
            /\ timers' = timers
            /\ cells' = cells
            /\ pc' = "idle"
            /\ op' = op
            /\ status' =
                 IF Clashing(readBoard) = { }
                 THEN Status("already complete", "success", 0)
                 ELSE Status("full with conflicts", "error",
                             Cardinality(Clashing(readBoard)))]_vars

\* Proceed was clicked on a board that had become full, with conflicts
C20_Witness ==
    /\ pc = "idle"
    /\ force
    /\ modalHidden
    /\ EmptyCellsOf(readBoard) = { }
    /\ status.msg = "full with conflicts"
    /\ status.count = Cardinality(Clashing(readBoard))
    /\ status.count > 0

\* a solve is running
InSolve == pc \in { "call", "try", "ret" }

\* the cells that were empty in the input and hold a value now
SolverFilled ==
    { p \in Pos : board0[p[1]][p[2]] = 0 /\ B[p[1]][p[2]] # 0 }

\* C21: the backtrack counter counts undone placements: it is 0 when the
\* solve starts, no step of the solve decreases it, a step adds one to it
\* exactly when the step resets a placed value to 0 (and then resets one
\* cell), and all along the solve and at return it equals the number of
\* placements made minus the number of cells the solver has filled in the
\* board; so it equals the number of placements when solved = false, and
\* is never negative.
C21_BacktracksCountUndone ==
    /\ []((pc = "call" /\ stack = << >>) =>
              (stats.backtracks = 0 /\ placements = 0))
    /\ [][InSolve =>
              LET undone == { p \in Pos : B[p[1]][p[2]] # 0
                                           /\ B'[p[1]][p[2]] = 0 }
              IN  /\ stats'.backtracks >= stats.backtracks
                  /\ Cardinality(undone) <= 1
                  /\ stats'.backtracks - stats.backtracks
                        = Cardinality(undone)]_vars
    /\ []((InSolve \/ SolveDone) =>
              /\ stats.backtracks = placements - Cardinality(SolverFilled)
              /\ stats.backtracks >= 0)
    /\ []((SolveDone /\ ~ stats.solved) =>
              (stats.backtracks = placements /\ SolverFilled = { }))

\* a solve returned solved = true after it had undone some placements and
\* kept others
C21_Witness ==
    /\ SolveDone
    /\ stats.solved
    /\ stats.backtracks > 0
    /\ Cardinality(SolverFilled) > 1
    /\ placements = stats.backtracks + Cardinality(SolverFilled)

\* the row-major index of a cell
RowMajor(p) == p[1] * N + p[2]

\* the input board with the values the solver left in its empty cells that
\* come before p in the row-major scan
FilledBefore(p) ==
    [r \in Idx |-> [c \in Idx |->
        IF board0[r][c] = 0 /\ RowMajor(<< r, c >>) >= RowMajor(p)
        THEN 0 ELSE B[r][c]]]

\* d can be placed at p in b and the rest of b can then be completed
Leads(b, p, d) ==
    /\ Holding(b, PeersOf[p], d) = { }
    /\ Completable([b EXCEPT ![p[1]][p[2]] = d])

\* the completions of the input: every filled cell holds a digit that no
\* other cell of its row, column or box holds
Completions ==
    { g \in { Fill(board0, f) : f \in [EmptyCellsOf(board0) -> Digits] } :
        \A p \in EmptyCellsOf(board0) :
            Holding(g, PeersOf[p], g[p[1]][p[2]]) = { } }

\* a is before b, or is b, in the row-major lexicographic order
LexLeq(a, b) ==
    \/ a = b
    \/ \E p \in Pos :
          /\ a[p[1]][p[2]] < b[p[1]][p[2]]
          /\ \A q \in Pos :
                RowMajor(q) < RowMajor(p) => a[q[1]][q[2]] = b[q[1]][q[2]]

\* C22: the solver returns the first solution in its depth-first order:
\* when solved = true, each cell that was empty in the input holds the
\* earliest candidate of that cell's cube entry for which the board, with
\* the earlier empty cells as the solver left them, can be completed; and
\* with the ascending cube the board left is the smallest completion of the
\* input in the row-major lexicographic order.
C22_FirstSolutionInCubeOrder ==
    (SolveDone /\ stats.solved) =>
        /\ \A p \in EmptyCellsOf(board0) :
              \E k \in Idx :
                 /\ cube[p[1]][p[2]][k] = B[p[1]][p[2]]
                 /\ Leads(FilledBefore(p), p, cube[p[1]][p[2]][k])
                 /\ \A j \in 0 .. (k - 1) :
                       ~ Leads(FilledBefore(p), p, cube[p[1]][p[2]][j])
        /\ (cube = AscendingCube) =>
              /\ B \in Completions
              /\ \A g \in Completions : LexLeq(B, g)

\* the ascending cube solved a board that has a second completion, larger
\* than the one returned
C22_Witness ==
    /\ SolveDone
    /\ stats.solved
    /\ cube = AscendingCube
    /\ OpenHoles \subseteq EmptyCellsOf(board0)
    /\ \E g \in Completions : g # B /\ LexLeq(B, g)

\* the cells validateBoard reports on b: those its loop pushes a conflict for
ReportedCells(b) ==
    { << n \div N, n % N >> : n \in { m \in 0 .. (Cells - 1) :
                                         ConflictAt(b, m) # << >> } }

\* C23: the search never introduces a conflict: in every state of a solve
\* and at its return, validateBoard would report on the board exactly the
\* cells it reports on the input board, and each cell the solver has filled
\* holds a value that no other cell of its row, column or box holds.
C23_SearchAddsNoConflict ==
    (InSolve \/ SolveDone) =>
        /\ ReportedCells(B) = ReportedCells(board0)
        /\ \A p \in SolverFilled :
              Holding(B, PeersOf[p], B[p[1]][p[2]]) = { }

\* the solver has placed values on a board whose given cells conflict
C23_Witness ==
    /\ InSolve
    /\ Cardinality(SolverFilled) > 1
    /\ ReportedCells(board0) # { }
    /\ ReportedCells(B) = ReportedCells(board0)

\* no callback is pending or running, and the status is the one the last
\* generate callback set
GenerateSettled ==
    /\ pc = "idle"
    /\ timers = << >>
    /\ status.msg = "generated"

\* the cells that show a value
FilledCells == { p \in Pos : cells[p[1]][p[2]] # "" }

\* C24: for every interleaving of Generate and Clear clicks with the delayed
\* generate callbacks, once no callback is pending the displayed board is
\* the last generated puzzle: the filled cells are the non-zero cells of
\* that puzzle, as many as the status says, each shows the value of
\* currentSolution there, and userCells is true on exactly those cells.
C24_DisplayedIsLastPuzzle ==
    GenerateSettled =>
        LET P == Deref(heap, puzzle)
        IN  /\ FilledCells = Pos \ EmptyCellsOf(P)
            /\ Cardinality(FilledCells) = status.count
            /\ \A p \in FilledCells :
                  /\ cells[p[1]][p[2]] = toString(P[p[1]][p[2]])
                  /\ cells[p[1]][p[2]] = toString(currentSolution[p[1]][p[2]])
            /\ \A p \in Pos : userCells[p[1]][p[2]] = (p \in FilledCells)

====
